---- MODULE Spec2Model ----
(***************************************************************************)
(* One run of app.py, the Streamlit report that fetches daily climate      *)
(* series from NASA POWER, averages them per month, left-joins the dengue  *)
(* case table and renders charts, followed by the static mosquito section. *)
(*                                                                         *)
(* Representation.                                                         *)
(*  - A DataFrame is [columns |-> <<names>>, data |-> <<rows>>]; a row is  *)
(*    the tuple of its cells in column order (column labels may repeat,    *)
(*    as they do after pd.concat(axis=1)).                                 *)
(*  - A numeric cell is NaN (the empty tuple) or the exact rational        *)
(*    <<num, den>> in lowest terms with den > 0; means are exact.          *)
(*  - A date string "YYYYMMDD" is the 1-tuple <<yyyymmdd>>; a parsed       *)
(*    datetime is <<year, month, day>>; NaT is the empty tuple.            *)
(***************************************************************************)
EXTENDS Integers, Sequences, FiniteSets, TLC

VARIABLES
    pc,             \* the statement of the script that runs next
    response,       \* what requests.get returned (line 37)
    bound,          \* the names the try block has assigned so far
    climate_data,   \* line 111: parameter code -> frame
    combined_data,  \* lines 117-121
    monthly_data,   \* lines 121-130
    final_df,       \* line 124
    raised,         \* the exceptions raised so far, in order
    out             \* the elements put on the page, in order

vars == <<pc, response, bound, climate_data, combined_data, monthly_data,
          final_df, raised, out>>

(* Longest daily series a response carries for one variable code. *)
MaxLen == 2

(***************************************************************************)
(* Cells and exact arithmetic                                              *)
(***************************************************************************)
NaN == <<>>

NaT == <<>>

Abs(x) == IF x < 0 THEN -x ELSE x

RECURSIVE GCD(_, _)
GCD(a, b) == IF b = 0 THEN a ELSE GCD(b, a % b)

Frac(n, d) == LET g == GCD(Abs(n), d) IN <<n \div g, d \div g>>

Num(n) == <<n, 1>>

AddFrac(a, b) == Frac(a[1] * b[2] + b[1] * a[2], a[2] * b[2])

(* x >= k for a cell x and an integer k; a comparison with NaN is False *)
CellGe(x, k) == x # NaN /\ x[1] >= k * x[2]

RECURSIVE SumCells(_)
SumCells(cells) ==
    IF cells = <<>> THEN Num(0) ELSE AddFrac(Head(cells), SumCells(Tail(cells)))

(* the cells of a sequence that are not NaN, in order *)
RECURSIVE dropna(_)
dropna(cells) ==
    IF cells = <<>> THEN <<>>
    ELSE IF Head(cells) = NaN THEN dropna(Tail(cells))
         ELSE <<Head(cells)>> \o dropna(Tail(cells))

(* the total instead of the mean *)
mean_undivided(cells) ==
    LET v == dropna(cells) IN IF v = <<>> THEN NaN ELSE SumCells(v)

(* Series.mean(): NaN cells are skipped; NaN when nothing is left *)
mean(cells) ==
    LET v == dropna(cells) IN
    IF v = <<>> THEN NaN
    ELSE LET s == SumCells(v) IN Frac(s[1], s[2] * Len(v))

(* Series.sum(): NaN cells are skipped; 0 when nothing is left *)
sum(cells) == SumCells(dropna(cells))

(***************************************************************************)
(* DataFrames                                                              *)
(***************************************************************************)
EmptyFrame == [columns |-> <<>>, data |-> <<>>]

HasColumn(df, name) == \E j \in 1..Len(df.columns) : df.columns[j] = name

(* position of the first column labelled name *)
ColIdx(df, name) ==
    CHOOSE j \in 1..Len(df.columns) :
        /\ df.columns[j] = name
        /\ \A k \in 1..(j - 1) : df.columns[k] # name

Cell(df, i, name) == df.data[i][ColIdx(df, name)]

Column(df, name) == [i \in 1..Len(df.data) |-> Cell(df, i, name)]

(* the subsequence of s at the positions in keep, in order *)
Take(s, keep) ==
    LET idx == keep \cap (1..Len(s))
        nth(k) == CHOOSE i \in idx : Cardinality({j \in idx : j < i}) = k - 1
    IN [k \in 1..Cardinality(idx) |-> s[nth(k)]]

(* df[mask]: the rows at the positions in keep *)
RowsWhere(df, keep) == [columns |-> df.columns, data |-> Take(df.data, keep)]

(***************************************************************************)
(* The HTTP response                                                       *)
(***************************************************************************)
parameters == <<"T2M", "PRECTOTCORR">>

Codes == {parameters[i] : i \in 1..Len(parameters)}

Dates == {20190715, 20190720, 20300101}

Values == {-999, 30}

(* one variable's date -> value mapping, as its items in document order *)
SeriesSet ==
    UNION {{s \in [1..n -> Dates \X Values] :
              \A i, j \in 1..n : i < j => s[i][1] # s[j][1]} : n \in 1..MaxLen}

ParameterMaps == UNION {[S -> SeriesSet] : S \in SUBSET Codes}

(* response bodies: {}, {"properties": {}}, {"properties": {"parameter": P}} *)
Bodies ==
    {[properties |-> FALSE, parameter |-> FALSE, series |-> <<>>],
     [properties |-> TRUE, parameter |-> FALSE, series |-> <<>>]}
    \cup {[properties |-> TRUE, parameter |-> TRUE, series |-> P] :
            P \in ParameterMaps}

StatusCodes == {200, 404, 500}

Responses == [status_code : StatusCodes, text : Bodies]

(* response.json(): the body text parsed *)
json(resp) == resp.text

(***************************************************************************)
(* fetch_nasa_data                                                         *)
(***************************************************************************)
(* pd.DataFrame(mapping.items(), columns=["Date", param]) *)
DataFrame(items, param) ==
    [columns |-> <<"Date", param>>,
     data |-> [i \in 1..Len(items) |-> <<(<<items[i][1]>>), Num(items[i][2])>>]]

RECURSIVE MissingWarnings(_, _)
MissingWarnings(params, present) ==
    IF params = <<>> THEN <<>>
    ELSE (IF Head(params) \in present THEN <<>>
          ELSE <<[kind |-> "warning", label |-> Head(params), data |-> <<>>]>>)
         \o MissingWarnings(Tail(params), present)

(* a fetch that raises when a requested code is absent from the response *)
ParseBody_strict(resp, params) ==
    LET data == json(resp) IN
    IF ~data.properties \/ ~data.parameter
         \/ \E i \in 1..Len(params) : params[i] \notin DOMAIN data.series
    THEN [ok |-> FALSE, result |-> <<>>, warnings |-> <<>>,
          exc |-> [type |-> "Exception",
                   args |-> <<"No climate data found for the given parameters.">>]]
    ELSE [ok |-> TRUE,
          result |-> [p \in {params[i] : i \in 1..Len(params)} |->
                        DataFrame(data.series[p], p)],
          warnings |-> <<>>,
          exc |-> [type |-> "None", args |-> <<>>]]

(* lines 41-57: the body parsed, the structure checked, one frame per      *)
(* requested code the response has, one warning per code it lacks          *)
ParseBody(resp, params) ==
    LET data == json(resp) IN
    IF ~data.properties \/ ~data.parameter
    THEN [ok |-> FALSE, result |-> <<>>, warnings |-> <<>>,
          exc |-> [type |-> "Exception",
                   args |-> <<"No climate data found for the given parameters.">>]]
    ELSE LET present == DOMAIN data.series
             wanted == {params[i] : i \in 1..Len(params)}
         IN [ok |-> TRUE,
             result |-> [p \in wanted \cap present |-> DataFrame(data.series[p], p)],
             warnings |-> MissingWarnings(params, present),
             exc |-> [type |-> "None", args |-> <<>>]]

(* fetch_nasa_data without the status check *)
fetch_nasa_data_unchecked(resp, params) == ParseBody(resp, params)

(* outcome of the call for the response requests.get returned: the         *)
(* exception raised, or the result mapping and the warnings surfaced       *)
fetch_nasa_data(resp, params) ==
    IF resp.status_code # 200
    THEN [ok |-> FALSE, result |-> <<>>, warnings |-> <<>>,
          exc |-> [type |-> "Exception",
                   args |-> <<"Error fetching data: ", resp.status_code, resp.text>>]]
    ELSE ParseBody(resp, params)

(***************************************************************************)
(* process_monthly_data                                                    *)
(***************************************************************************)
(* pd.to_datetime on one cell: "YYYYMMDD" -> (year, month, day); NaN -> NaT; *)
(* a value that is already a datetime is kept                              *)
to_datetime(c) ==
    IF c = NaN THEN NaT
    ELSE IF Len(c) = 3 THEN c
    ELSE <<c[1] \div 10000, (c[1] \div 100) % 100, c[1] % 100>>

(* .dt.year and .dt.month: NaN for NaT *)
dt_year(d) == IF d = NaT THEN NaN ELSE Num(d[1])

dt_month(d) == IF d = NaT THEN NaN ELSE Num(d[2])

(* combined_data["Date"] = pd.to_datetime(combined_data["Date"]) *)
ParseDates(df) ==
    LET dj == ColIdx(df, "Date") IN
    [columns |-> df.columns,
     data |-> [i \in 1..Len(df.data) |->
                 [j \in 1..Len(df.columns) |->
                    IF j = dj THEN to_datetime(df.data[i][j]) ELSE df.data[i][j]]]]

(* the frame as process_monthly_data leaves it: Date parsed, Year and      *)
(* Month appended (the argument is modified in place)                      *)
WithYearMonth(df) ==
    LET p == ParseDates(df) IN
    [columns |-> p.columns \o <<"Year", "Month">>,
     data |-> [i \in 1..Len(p.data) |->
                 p.data[i] \o <<dt_year(Cell(p, i, "Date")),
                                dt_month(Cell(p, i, "Date"))>>]]

CellLt(a, b) == a[1] * b[2] < b[1] * a[2]

(* lexicographic order on tuples of cells of equal length *)
KeyLt(a, b) ==
    \E k \in 1..Len(a) :
        /\ CellLt(a[k], b[k])
        /\ \A m \in 1..(k - 1) : a[m] = b[m]

RECURSIVE SortKeys(_)
SortKeys(S) ==
    IF S = {} THEN <<>>
    ELSE LET lo == CHOOSE a \in S : \A b \in S \ {a} : KeyLt(a, b)
         IN <<lo>> \o SortKeys(S \ {lo})

(* the key of row i under the grouping columns by *)
RowKey(df, i, by) == [k \in 1..Len(by) |-> Cell(df, i, by[k])]

(* group keys in ascending order; rows with a NaN key are left out *)
GroupKeys(df, by) ==
    SortKeys({RowKey(df, i, by) : i \in
                {r \in 1..Len(df.data) :
                   \A k \in 1..Len(by) : Cell(df, r, by[k]) # NaN}})

GroupCells(df, by, key, name) ==
    LET rows == {r \in 1..Len(df.data) : RowKey(df, r, by) = key}
    IN Take(Column(df, name), rows)

(* the columns that groupby(by).mean() averages: those that are not keys;  *)
(* the datetime column Date is averaged by a pandas whose mean() keeps     *)
(* datetime columns (keeps_datetime) and dropped by one that averages      *)
(* numeric columns only                                                    *)
ValueColumns(df, by, keeps_datetime) ==
    Take(df.columns,
         {j \in 1..Len(df.columns) :
            /\ df.columns[j] = "Date" => keeps_datetime
            /\ \A k \in 1..Len(by) : df.columns[j] # by[k]})

(* the mean of the datetimes of one year-month: that year and month, with  *)
(* the mean of the days (a rational); NaT cells are skipped                *)
mean_datetime(cells) ==
    LET v == dropna(cells) IN
    IF v = <<>> THEN NaT
    ELSE <<v[1][1], v[1][2], mean([k \in 1..Len(v) |-> Num(v[k][3])])>>

(* data.groupby(by).mean().reset_index() *)
groupby_mean(df, by, keeps_datetime) ==
    LET keys == GroupKeys(df, by)
        vcols == ValueColumns(df, by, keeps_datetime)
    IN [columns |-> by \o vcols,
        data |-> [g \in 1..Len(keys) |->
                    keys[g] \o [c \in 1..Len(vcols) |->
                                  IF vcols[c] = "Date"
                                  THEN mean_datetime(GroupCells(df, by, keys[g], "Date"))
                                  ELSE mean(GroupCells(df, by, keys[g], vcols[c]))]]]

process_monthly_data(data, keeps_datetime) ==
    groupby_mean(WithYearMonth(data), <<"Year", "Month">>, keeps_datetime)

(***************************************************************************)
(* The dengue case table                                                   *)
(***************************************************************************)
DengueColumns ==
    <<"Year", "Jan", "Feb", "Mar", "Apr", "May", "Jun", "Jul", "Aug", "Sep",
      "Oct", "Nov", "Dec", "Total">>

dengue_data ==
    [Year  |-> <<2013, 2014, 2015, 2016, 2017, 2018, 2019, 2020, 2021, 2022, 2023>>,
     Jan   |-> <<0, 0, 0, 0, 1, 1, 0, 0, 0, 0, 0>>,
     Feb   |-> <<0, 0, 0, 0, 0, 0, 0, 0, 0, 0, 0>>,
     Mar   |-> <<0, 0, 1, 2, 0, 0, 0, 0, 1, 2, 1>>,
     Apr   |-> <<0, 0, 0, 5, 0, 2, 0, 0, 0, 0, 1>>,
     May   |-> <<0, 0, 2, 13, 0, 2, 1, 0, 0, 0, 3>>,
     Jun   |-> <<0, 0, 2, 7, 0, 1, 2, 0, 0, 5, 9>>,
     Jul   |-> <<1, 2, 0, 7, 0, 14, 27, 1, 2, 9, 25>>,
     Aug   |-> <<1, 2, 55, 22, 6, 9, 684, 4, 12, 420, 148>>,
     Sep   |-> <<36, 51, 813, 412, 135, 98, 4686, 16, 420, 1912, 1044>>,
     Oct   |-> <<396, 907, 2317, 2053, 386, 444, 5581, 13, 2126, 2106, 1112>>,
     Nov   |-> <<408, 479, 603, 770, 122, 142, 961, 0, 948, 565, 361>>,
     Dec   |-> <<19, 15, 124, 16, 1, 4, 0, 4, 17, 20, 34>>,
     Total |-> <<861, 1456, 3917, 3307, 651, 717, 11942, 38, 3526, 5039, 2738>>]

(* pd.DataFrame(dengue_data): one row per year, the columns in dict order *)
dengue_table ==
    [columns |-> DengueColumns,
     data |-> [i \in 1..Len(dengue_data.Year) |->
                 [j \in 1..Len(DengueColumns) |->
                    Num(dengue_data[DengueColumns[j]][i])]]]

RECURSIVE Concat(_)
Concat(ss) == IF ss = <<>> THEN <<>> ELSE Head(ss) \o Concat(Tail(ss))

(* pd.melt(df, id_vars=[id], var_name=..., value_name=...): every column   *)
(* other than id is a value column; the output lists, value column by      *)
(* value column, one row (id, column label, cell) per input row            *)
melt(df, id, var_name, value_name) ==
    LET vcols == Take(df.columns,
                      {j \in 1..Len(df.columns) : df.columns[j] # id})
    IN [columns |-> <<id, var_name, value_name>>,
        data |-> Concat([c \in 1..Len(vcols) |->
                           [i \in 1..Len(df.data) |->
                              <<Cell(df, i, id), <<vcols[c]>>,
                                Cell(df, i, vcols[c])>>]])]

month_mapping ==
    [Jan |-> 1, Feb |-> 2, Mar |-> 3, Apr |-> 4, May |-> 5, Jun |-> 6,
     Jul |-> 7, Aug |-> 8, Sep |-> 9, Oct |-> 10, Nov |-> 11, Dec |-> 12]

(* Series.map(mapping) on one cell: a label that is no key becomes NaN *)
map_cell(c, mapping) ==
    IF c[1] \in DOMAIN mapping THEN Num(mapping[c[1]]) ELSE NaN

(* dengue_df after the melt and the month-name mapping *)
dengue_df ==
    LET m == melt(dengue_table, "Year", "Month", "Dengue Cases")
        mj == ColIdx(m, "Month")
    IN [columns |-> m.columns,
        data |-> [i \in 1..Len(m.data) |->
                    [j \in 1..Len(m.columns) |->
                       IF j = mj THEN map_cell(m.data[i][j], month_mapping)
                       ELSE m.data[i][j]]]]

(***************************************************************************)
(* The join and the later aggregates                                       *)
(***************************************************************************)
(* the inner join: a left row that matches no right row is dropped *)
merge_inner(left, right, on) ==
    LET rcols == {j \in 1..Len(right.columns) :
                    \A k \in 1..Len(on) : right.columns[j] # on[k]}
        matches(i) == {r \in 1..Len(right.data) :
                         RowKey(right, r, on) = RowKey(left, i, on)}
        joined(i) ==
            LET rs == Take(right.data, matches(i))
            IN [m \in 1..Len(rs) |-> left.data[i] \o Take(rs[m], rcols)]
    IN [columns |-> left.columns \o Take(right.columns, rcols),
        data |-> Concat([i \in 1..Len(left.data) |-> joined(i)])]

(* pd.merge(left, right, on=on, how="left"): left rows in order, each      *)
(* once per matching right row, or once with NaN when none matches         *)
merge(left, right, on) ==
    LET rcols == {j \in 1..Len(right.columns) :
                    \A k \in 1..Len(on) : right.columns[j] # on[k]}
        matches(i) == {r \in 1..Len(right.data) :
                         RowKey(right, r, on) = RowKey(left, i, on)}
        joined(i) ==
            IF matches(i) = {}
            THEN <<left.data[i] \o [j \in 1..Cardinality(rcols) |-> NaN]>>
            ELSE LET rs == Take(right.data, matches(i))
                 IN [m \in 1..Len(rs) |-> left.data[i] \o Take(rs[m], rcols)]
    IN [columns |-> left.columns \o Take(right.columns, rcols),
        data |-> Concat([i \in 1..Len(left.data) |-> joined(i)])]

(* df.groupby(key).agg({"T2M": "mean", "PRECTOTCORR": "mean",              *)
(*                      "Dengue Cases": "sum"}).reset_index()              *)
groupby_agg(df, key) ==
    LET keys == GroupKeys(df, <<key>>)
    IN [columns |-> <<key, "T2M", "PRECTOTCORR", "Dengue Cases">>,
        data |-> [g \in 1..Len(keys) |->
                    keys[g] \o
                    <<mean(GroupCells(df, <<key>>, keys[g], "T2M")),
                      mean(GroupCells(df, <<key>>, keys[g], "PRECTOTCORR")),
                      sum(GroupCells(df, <<key>>, keys[g], "Dengue Cases"))>>]]

(* pd.concat(frames, axis=1): rows are aligned on the positional index;    *)
(* a frame shorter than the longest is padded with NaN                     *)
concat_axis1(frames) ==
    LET n == CHOOSE m \in {Len(frames[f].data) : f \in 1..Len(frames)} :
                 \A f \in 1..Len(frames) : Len(frames[f].data) <= m
        padded(f, i) ==
            IF i <= Len(frames[f].data) THEN frames[f].data[i]
            ELSE [j \in 1..Len(frames[f].columns) |-> NaN]
    IN [columns |-> Concat([f \in 1..Len(frames) |-> frames[f].columns]),
        data |-> [i \in 1..n |->
                    Concat([f \in 1..Len(frames) |-> padded(f, i)])]]

(* df.loc[:, ~df.columns.duplicated()]: the first column of each label *)
drop_duplicated_columns(df) ==
    LET keep == {j \in 1..Len(df.columns) :
                   \A k \in 1..(j - 1) : df.columns[k] # df.columns[j]}
    IN [columns |-> Take(df.columns, keep),
        data |-> [i \in 1..Len(df.data) |-> Take(df.data[i], keep)]]

(***************************************************************************)
(* The script, top to bottom                                               *)
(***************************************************************************)
(* one element put on the page by a streamlit call *)
Elem(kind, label, data) == [kind |-> kind, label |-> label, data |-> data]

Exc(type, arg) == [type |-> type, args |-> <<arg>>]

Last(s) == s[Len(s)]

(* all_data: the frames of climate_data.items(), in insertion order *)
all_data ==
    LET have == {i \in 1..Len(parameters) : parameters[i] \in DOMAIN climate_data}
        order == Take(parameters, have)
    IN [k \in 1..Len(order) |-> climate_data[order[k]]]

(* monthly_data[monthly_data[name] >= floor] *)
FilterGe(df, name, floor) ==
    RowsWhere(df, {i \in 1..Len(df.data) : CellGe(Cell(df, i, name), floor)})

(* the mosquito table; the 2024 populations are written by a chained       *)
(* assignment, which sets the cell or leaves it NaN depending on pandas    *)
mosquito_df(assigned) ==
    LET aegypti == Frac(3484 * 46, 100)
        albopictus == Frac(3484 * 54, 100)
    IN [columns |-> <<"Year", "Mosquito Population (Aedes aegypti)",
                      "Mosquito Population (Aedes albopictus)",
                      "Dengue Larvae Sites Detected (2024)",
                      "Homes with Dengue Larvae (2024)",
                      "Outdoor Locations with Dengue Larvae (2024)">>,
        data |-> <<(<<Num(2016), aegypti, albopictus, NaN, NaN, NaN>>),
                   (<<Num(2024),
                     IF assigned THEN Frac(8064 * 46 * 3484, 100 * 8064) ELSE NaN,
                     IF assigned THEN Frac(8064 * 54 * 3484, 100 * 8064) ELSE NaN,
                     Num(8064), Num(6735), Num(1361)>>)>>]

Init ==
    /\ pc = "fetch"
    /\ response \in Responses
    /\ bound = {}
    /\ climate_data = <<>>
    /\ combined_data = EmptyFrame
    /\ monthly_data = EmptyFrame
    /\ final_df = EmptyFrame
    /\ raised = <<>>
    /\ out = <<Elem("markdown", "hide_bar", <<>>),
                Elem("title", "Climate Impact on Dengue Cases and Mosquito Population Growth Trends in Rawalpindi, Pakistan", <<>>),
                Elem("markdown", "Analyze the correlation between temperature, rainfall, and dengue cases over the past years (2013 - 2023).", <<>>),
                Elem("info", "Fetching climate data from NASA POWER API...", <<>>)>>

(* line 111: climate_data = fetch_nasa_data(...) *)
Fetch ==
    /\ pc = "fetch"
    /\ LET r == fetch_nasa_data(response, parameters) IN
       IF r.ok
       THEN /\ climate_data' = r.result
            /\ bound' = bound \cup {"climate_data"}
            /\ out' = out \o r.warnings
            /\ pc' = "combine"
            /\ UNCHANGED raised
       ELSE /\ raised' = Append(raised, r.exc)
            /\ pc' = "except"
            /\ UNCHANGED <<climate_data, bound, out>>
    /\ UNCHANGED <<response, combined_data, monthly_data, final_df>>

(* lines 114-117: pd.concat raises ValueError on an empty list *)
Combine ==
    /\ pc = "combine"
    /\ IF all_data = <<>>
       THEN /\ raised' = Append(raised, Exc("ValueError", "No objects to concatenate"))
            /\ pc' = "except"
            /\ UNCHANGED <<combined_data, bound>>
       ELSE /\ combined_data' = drop_duplicated_columns(concat_axis1(all_data))
            /\ bound' = bound \cup {"combined_data"}
            /\ pc' = "monthly"
            /\ UNCHANGED raised
    /\ UNCHANGED <<response, climate_data, monthly_data, final_df, out>>

(* lines 120-121 *)
Monthly ==
    /\ pc = "monthly"
    /\ \E keeps_datetime \in BOOLEAN :
          monthly_data' = process_monthly_data(ParseDates(combined_data), keeps_datetime)
    /\ combined_data' = WithYearMonth(ParseDates(combined_data))
    /\ bound' = bound \cup {"monthly_data"}
    /\ pc' = "merge"
    /\ UNCHANGED <<response, climate_data, final_df, raised, out>>

(* lines 124-127 *)
Merge ==
    /\ pc = "merge"
    /\ final_df' = merge(monthly_data, dengue_df, <<"Year", "Month">>)
    /\ bound' = bound \cup {"final_df"}
    /\ out' = Append(out, Elem("subheader",
                 "Monthly Trends of Temperature, Rainfall, and Dengue Cases", <<>>))
    /\ pc' = "filter"
    /\ UNCHANGED <<response, climate_data, combined_data, monthly_data, raised>>

(* lines 129-130: monthly_data[name] raises KeyError for a missing column *)
Filter ==
    /\ pc = "filter"
    /\ IF ~HasColumn(monthly_data, "T2M")
       THEN /\ raised' = Append(raised, Exc("KeyError", "T2M"))
            /\ pc' = "except"
            /\ UNCHANGED monthly_data
       ELSE IF ~HasColumn(monthly_data, "PRECTOTCORR")
       THEN /\ raised' = Append(raised, Exc("KeyError", "PRECTOTCORR"))
            /\ pc' = "except"
            /\ monthly_data' = FilterGe(monthly_data, "T2M", -5)
       ELSE /\ monthly_data' =
                  FilterGe(FilterGe(monthly_data, "T2M", -5), "PRECTOTCORR", 0)
            /\ pc' = "charts"
            /\ UNCHANGED raised
    /\ UNCHANGED <<response, bound, climate_data, combined_data, final_df, out>>

(* lines 132-172: the monthly line charts, the yearly overview, the table *)
Charts ==
    /\ pc = "charts"
    /\ LET year_avg == groupby_agg(final_df, "Year") IN
       out' = out
          \o (IF HasColumn(final_df, "T2M")
              THEN <<Elem("plotly_chart", "Monthly Temperature Trends", final_df)>>
              ELSE <<>>)
          \o (IF HasColumn(final_df, "PRECTOTCORR")
              THEN <<Elem("plotly_chart", "Monthly Rainfall Trends (mm)", final_df)>>
              ELSE <<>>)
          \o <<Elem("plotly_chart", "Monthly Dengue Cases", final_df),
               Elem("subheader", "Yearly Overview", <<>>),
               Elem("plotly_chart", "Yearly Temperature and Rainfall Trends", year_avg),
               Elem("plotly_chart", "Yearly Dengue Cases", year_avg),
               Elem("title", "Dengue Cases Over the Years", <<>>),
               Elem("table", "dengue_data", dengue_table)>>
    /\ pc' = "display_correlation"
    /\ UNCHANGED <<response, bound, climate_data, combined_data, monthly_data,
                   final_df, raised>>

(* lines 175-176: st.error(f"Error fetching data: {e}") *)
Except ==
    /\ pc = "except"
    /\ out' = Append(out, Elem("error", "Error fetching data: ", Last(raised)))
    /\ pc' = "display_correlation"
    /\ UNCHANGED <<response, bound, climate_data, combined_data, monthly_data,
                   final_df, raised>>

(* the column of T2M, PRECTOTCORR, Dengue Cases that df lacks, if any *)
MissingColumns(df) ==
    Take(<<"T2M", "PRECTOTCORR", "Dengue Cases">>,
         {k \in 1..3 : ~HasColumn(df, <<"T2M", "PRECTOTCORR", "Dengue Cases">>[k])})

(* line 202: display_correlation_with_year_month(final_df), outside the try *)
DisplayCorrelation ==
    /\ pc = "display_correlation"
    /\ IF "final_df" \notin bound
       THEN /\ raised' = Append(raised, Exc("NameError", "final_df"))
            /\ pc' = "crashed"
            /\ UNCHANGED out
       ELSE IF MissingColumns(final_df) # <<>>
       THEN /\ raised' = Append(raised, Exc("KeyError", Head(MissingColumns(final_df))))
            /\ pc' = "crashed"
            /\ UNCHANGED out
       ELSE /\ out' = out \o
                 <<Elem("subheader", "Scatter Plots with Trendlines (Year and Month Info)", <<>>),
                   Elem("plotly_chart", "Temperature vs Dengue Cases (Year and Month Info)", final_df),
                   Elem("plotly_chart", "Rainfall vs Dengue Cases (Year and Month Info)", final_df)>>
            /\ pc' = "advanced"
            /\ UNCHANGED raised
    /\ UNCHANGED <<response, bound, climate_data, combined_data, monthly_data, final_df>>

(* line 254: advanced_visual_representation(final_df); Year and Month are  *)
(* columns already, so add_year_month_column changes nothing               *)
AdvancedVisual ==
    /\ pc = "advanced"
    /\ out' = out \o
          <<Elem("subheader", "3D Scatter Plot: Temperature, Rainfall, Dengue Cases, and Month", <<>>),
            Elem("plotly_chart", "3D Scatter Plot of Temperature, Rainfall, Dengue Cases, and Month", final_df),
            Elem("subheader", "Pair Plot: Temperature, Rainfall, and Dengue Cases by Month", <<>>),
            Elem("pyplot", "Pair Plot of Temperature, Rainfall, and Dengue Cases by Month", final_df)>>
    /\ pc' = "heatmap"
    /\ UNCHANGED <<response, bound, climate_data, combined_data, monthly_data,
                   final_df, raised>>

(* line 296: clear_heatmap_representation(final_df) *)
Heatmap ==
    /\ pc = "heatmap"
    /\ out' = out \o
          <<Elem("subheader", "Heatmap: Temperature, Rainfall, and Dengue Cases by Month", <<>>),
            Elem("plotly_chart", "Heatmap - Temperature, Rainfall & Dengue Cases by Month",
                 groupby_agg(final_df, "Month"))>>
    /\ pc' = "mosquito"
    /\ UNCHANGED <<response, bound, climate_data, combined_data, monthly_data,
                   final_df, raised>>

(* lines 302-343: the static mosquito-population section *)
Mosquito ==
    /\ pc = "mosquito"
    /\ \E assigned \in BOOLEAN :
          out' = out \o
             <<Elem("title", "Mosquito Population Growth and Trends in Rawalpindi", <<>>),
               Elem("write", "mosquito population findings", <<>>),
               Elem("pyplot", "Mosquito Population Distribution in Rawalpindi (2016 vs 2024)",
                    mosquito_df(assigned))>>
    /\ pc' = "closing"
    /\ UNCHANGED <<response, bound, climate_data, combined_data, monthly_data,
                   final_df, raised>>

(* lines 347-422: the 2024 larvae sites, the references and the footer *)
Closing ==
    /\ pc = "closing"
    /\ out' = out \o
          <<Elem("write", "2024 larvae data", <<>>),
            Elem("write", "findings", <<>>),
            Elem("write", "Dengue Larvae Sites in 2024", <<>>),
            Elem("pyplot", "Dengue Larvae Sites in Rawalpindi (2024)",
                 <<Num(8064), Num(6735), Num(1361)>>),
            Elem("markdown", "References", <<>>),
            Elem("markdown", "reference list", <<>>),
            Elem("write", "20 newlines", <<>>),
            Elem("markdown", "footer", <<>>)>>
    /\ pc' = "done"
    /\ UNCHANGED <<response, bound, climate_data, combined_data, monthly_data,
                   final_df, raised>>

Next ==
    \/ Fetch
    \/ Combine
    \/ Monthly
    \/ Merge
    \/ Filter
    \/ Charts
    \/ Except
    \/ DisplayCorrelation
    \/ AdvancedVisual
    \/ Heatmap
    \/ Mosquito
    \/ Closing

Spec == Init /\ [][Next]_vars

(***************************************************************************)
(* Properties                                                              *)
(***************************************************************************)
Elems(kind) == {i \in 1..Len(out) : out[i].kind = kind}

(* the fetch raises: a non-200 status, or a body lacking properties/parameter *)
FetchFails ==
    \/ response.status_code # 200
    \/ ~response.text.properties
    \/ ~response.text.parameter

MosquitoRendered ==
    \E i \in Elems("pyplot") :
        out[i].label = "Mosquito Population Distribution in Rawalpindi (2016 vs 2024)"

(* the charts drawn from the rows of final_df, and those drawn from its    *)
(* per-year and per-month aggregates                                       *)
RowCharts ==
    {"Monthly Temperature Trends", "Monthly Rainfall Trends (mm)", "Monthly Dengue Cases",
     "Temperature vs Dengue Cases (Year and Month Info)",
     "Rainfall vs Dengue Cases (Year and Month Info)",
     "3D Scatter Plot of Temperature, Rainfall, Dengue Cases, and Month",
     "Pair Plot of Temperature, Rainfall, and Dengue Cases by Month"}

YearCharts == {"Yearly Temperature and Rainfall Trends", "Yearly Dengue Cases"}

MonthCharts == {"Heatmap - Temperature, Rainfall & Dengue Cases by Month"}

Charted == {i \in Elems("plotly_chart") \cup Elems("pyplot") :
              out[i].label \in RowCharts \cup YearCharts \cup MonthCharts}

(* C1: when the fetch fails, the steps that need the joined table are      *)
(* skipped and the run is not terminated before the mosquito section: it   *)
(* never ends on an uncaught exception, and a finished run has rendered    *)
(* the mosquito section.                                                   *)
C1_FailedFetchStillRendersMosquito ==
    FetchFails =>
        /\ pc # "crashed"
        /\ Charted = {}
        /\ pc = "done" => MosquitoRendered

(* C2: with a status other than 200, whatever the body, process_monthly_data *)
(* and the merge never run, and once the handler has run exactly one error *)
(* message is on the page, carrying the status and the response body.      *)
C2_Non200AbortsBeforeAggregation ==
    response.status_code # 200 =>
        /\ "monthly_data" \notin bound
        /\ "final_df" \notin bound
        /\ monthly_data = EmptyFrame
        /\ final_df = EmptyFrame
        /\ pc \in {"fetch", "except"} => Elems("error") = {}
        /\ pc \notin {"fetch", "except"} =>
              /\ Cardinality(Elems("error")) = 1
              /\ \A i \in Elems("error") :
                    /\ out[i].data.type = "Exception"
                    /\ Len(out[i].data.args) = 3
                    /\ out[i].data.args[2] = response.status_code
                    /\ out[i].data.args[3] = response.text

C2_Witness ==
    /\ response.status_code = 404
    /\ response.text.parameter
    /\ DOMAIN response.text.series = Codes
    /\ pc = "crashed"
    /\ Cardinality(Elems("error")) = 1

MonthAbbr ==
    <<"Jan", "Feb", "Mar", "Apr", "May", "Jun", "Jul", "Aug", "Sep", "Oct", "Nov", "Dec">>

(* the literal table's cell for (year, month), NaN when it has none *)
CaseCount(y, m) ==
    IF m \in 1..12 /\ \E k \in 1..Len(dengue_data.Year) : dengue_data.Year[k] = y
    THEN LET k == CHOOSE k \in 1..Len(dengue_data.Year) : dengue_data.Year[k] = y
         IN Num(dengue_data[MonthAbbr[m]][k])
    ELSE NaN

(* C3: right after the merge, final_df is the left outer join of the       *)
(* monthly aggregate with the case table: the aggregate's rows, in order,  *)
(* each once, climate cells unchanged, with the literal table's count for  *)
(* that (year, month), or NaN where the table has none; (2019, 7) carries  *)
(* 27 and a row of 2030 carries NaN.                                       *)
C3_LeftOuterJoin ==
    pc = "filter" =>
        /\ final_df.columns = monthly_data.columns \o <<"Dengue Cases">>
        /\ Len(final_df.data) = Len(monthly_data.data)
        /\ \A i \in 1..Len(final_df.data) :
              /\ SubSeq(final_df.data[i], 1, Len(monthly_data.columns))
                    = monthly_data.data[i]
              /\ Cell(final_df, i, "Dengue Cases")
                    = CaseCount(Cell(monthly_data, i, "Year")[1],
                                Cell(monthly_data, i, "Month")[1])
              /\ (Cell(final_df, i, "Year") = Num(2019)
                    /\ Cell(final_df, i, "Month") = Num(7))
                    => Cell(final_df, i, "Dengue Cases") = Num(27)
              /\ Cell(final_df, i, "Year") = Num(2030)
                    => Cell(final_df, i, "Dengue Cases") = NaN

C3_Witness ==
    /\ pc = "filter"
    /\ Len(final_df.data) = 2
    /\ Cell(final_df, 1, "Year") = Num(2019)
    /\ Cell(final_df, 1, "Dengue Cases") = Num(27)
    /\ Cell(final_df, 2, "Year") = Num(2030)
    /\ Cell(final_df, 2, "Dengue Cases") = NaN

(* C4: when the script reaches the fetch, the reshaped case table has      *)
(* years x 12 records, each with a month number in 1..12.                  *)
C4_ReshapeYieldsTwelvePerYear ==
    pc = "fetch" =>
    /\ Len(dengue_df.data) = Len(dengue_data.Year) * 12
    /\ \A i \in 1..Len(dengue_df.data) :
          \E m \in 1..12 : Cell(dengue_df, i, "Month") = Num(m)

(* C5: when the script reaches the fetch, for every year of the literal    *)
(* table the case counts of all the reshaped records of that year add up   *)
(* to the year's Total.                                                    *)
C5_YearSumEqualsTotal ==
    pc = "fetch" =>
    \A k \in 1..Len(dengue_data.Year) :
        sum(GroupCells(dengue_df, <<"Year">>, <<Num(dengue_data.Year[k])>>,
                       "Dengue Cases"))
            = Num(dengue_data.Total[k])

(* the value the response's series for code c gives for date string d *)
SeriesValue(c, d) ==
    LET s == response.text.series[c] IN
    IF \E k \in 1..Len(s) : s[k][1] = d
    THEN LET k == CHOOSE k \in 1..Len(s) : s[k][1] = d IN Num(s[k][2])
    ELSE NaN

(* C6: the combined table has one Date column and one column per fetched   *)
(* code, every row has a date, and holds for each code the value that      *)
(* code's series gives for the row's date.                                 *)
C6_CombinedAlignedOnDate ==
    pc = "monthly" =>
        /\ combined_data.columns = <<"Date">> \o
              Take(parameters, {i \in 1..Len(parameters) :
                                  parameters[i] \in DOMAIN climate_data})
        /\ \A i \in 1..Len(combined_data.data) :
              /\ Cell(combined_data, i, "Date") # NaN
              /\ \A c \in DOMAIN climate_data :
                    Cell(combined_data, i, c)
                       = SeriesValue(c, Cell(combined_data, i, "Date")[1])

FetchSucceeds == ~FetchFails

(* C7: for a 200 response with properties/parameter, fetch_nasa_data       *)
(* returns: the mapping has exactly the requested codes the response has,  *)
(* and each requested code it lacks got exactly one warning.               *)
C7_AbsentCodeWarnsAndIsOmitted ==
    (FetchSucceeds /\ pc # "fetch") =>
        /\ "climate_data" \in bound
        /\ \A k \in 1..Len(raised) : raised[k].type # "Exception"
        /\ DOMAIN climate_data = Codes \cap DOMAIN response.text.series
        /\ \A c \in DOMAIN climate_data :
              climate_data[c] = DataFrame(response.text.series[c], c)
        /\ \A c \in Codes :
              Cardinality({i \in Elems("warning") : out[i].label = c})
                 = IF c \in DOMAIN response.text.series THEN 0 ELSE 1

C7_Witness ==
    /\ FetchSucceeds
    /\ pc = "combine"
    /\ DOMAIN climate_data = {"T2M"}
    /\ Cardinality(Elems("warning")) = 1

(* C8: when the fetch succeeds with one of the two codes absent, the run   *)
(* surfaces no error message and does not abort.                           *)
C8_MissingCodeIsNonFatal ==
    (FetchSucceeds /\ Cardinality(DOMAIN response.text.series) = 1) =>
        /\ Elems("error") = {}
        /\ pc \notin {"except", "crashed"}
        /\ raised = <<>>

(* x < k for a cell x and an integer k; a comparison with NaN is False *)
CellBelow(x, k) == x # NaN /\ x[1] < k * x[2]

(* df without the rows whose T2M is below -5 or PRECTOTCORR below 0 *)
AboveFloors(df) ==
    RowsWhere(df, {i \in 1..Len(df.data) :
                     /\ ~CellBelow(Cell(df, i, "T2M"), -5)
                     /\ ~CellBelow(Cell(df, i, "PRECTOTCORR"), 0)})

(* C9: every chart drawn after the filter step consumes only rows whose    *)
(* T2M is not below -5 and whose PRECTOTCORR is not below 0: row charts    *)
(* hold no such row, and the per-year and per-month aggregates are those   *)
(* of the remaining rows.                                                  *)
C9_ChartsExcludeFilteredRows ==
    \A i \in Charted :
        /\ out[i].label \in RowCharts => out[i].data = AboveFloors(out[i].data)
        /\ out[i].label \in YearCharts =>
              out[i].data = groupby_agg(AboveFloors(final_df), "Year")
        /\ out[i].label \in MonthCharts =>
              out[i].data = groupby_agg(AboveFloors(final_df), "Month")

RECURSIVE SumNums(_, _)
(* the sum of the numerators of the cells of column name at the rows in S *)
SumNums(S, name) ==
    IF S = {} THEN 0
    ELSE LET i == CHOOSE i \in S : TRUE
         IN Cell(combined_data, i, name)[1] + SumNums(S \ {i}, name)

(* the input rows of a year-month, by their parsed dates *)
RowsOf(y, m) ==
    {i \in 1..Len(combined_data.data) :
       /\ Cell(combined_data, i, "Date") # NaT
       /\ Cell(combined_data, i, "Date")[1] = y
       /\ Cell(combined_data, i, "Date")[2] = m}

InputYearMonths ==
    {<<Cell(combined_data, i, "Date")[1], Cell(combined_data, i, "Date")[2]>> :
       i \in {r \in 1..Len(combined_data.data) : Cell(combined_data, r, "Date") # NaT}}

(* C10: right after process_monthly_data, monthly_data has Year and Month  *)
(* as columns, exactly one row per distinct (year, month) among the input  *)
(* dates, and each climate cell is the arithmetic mean of the column's     *)
(* values over the input rows of that year-month (NaN when none of them    *)
(* has a value); a year-month with a single input row keeps its values.    *)
C10_OneRowPerYearMonthWithMeans ==
    pc = "merge" =>
        /\ SubSeq(monthly_data.columns, 1, 2) = <<"Year", "Month">>
        /\ \A c \in DOMAIN climate_data :
              Cardinality({j \in 1..Len(monthly_data.columns) :
                             monthly_data.columns[j] = c}) = 1
        /\ Len(monthly_data.data) = Cardinality(InputYearMonths)
        /\ {<<Cell(monthly_data, g, "Year"), Cell(monthly_data, g, "Month")>> :
               g \in 1..Len(monthly_data.data)}
             = {<<Num(k[1]), Num(k[2])>> : k \in InputYearMonths}
        /\ \A g \in 1..Len(monthly_data.data) : \A c \in DOMAIN climate_data :
              LET rows == RowsOf(Cell(monthly_data, g, "Year")[1],
                                 Cell(monthly_data, g, "Month")[1])
                  vals == {i \in rows : Cell(combined_data, i, c) # NaN}
                  avg == Cell(monthly_data, g, c)
              IN /\ vals = {} => avg = NaN
                 /\ vals # {} =>
                       /\ avg # NaN
                       /\ avg[2] > 0
                       /\ avg[1] * Cardinality(vals) = avg[2] * SumNums(vals, c)
                 /\ \A i \in rows : rows = {i} => avg = Cell(combined_data, i, c)

C10_Witness ==
    /\ pc = "merge"
    /\ Len(combined_data.data) = 2
    /\ Len(monthly_data.data) = 1
    /\ HasColumn(monthly_data, "T2M")
    /\ Cell(combined_data, 1, "T2M") = Num(30)
    /\ Cell(combined_data, 2, "T2M") = Num(-999)
    /\ Cell(monthly_data, 1, "T2M") = <<-969, 2>>

====
